---- MODULE Spec2Model ----
(***************************************************************************)
(* Model of the response pipeline of backend/app/llm_service.py (aura).    *)
(* The module is shipped as compiled bytecode (llm_service.cpython-312,    *)
(* stored in src/unnamed/part_002 after the README); the definitions below *)
(* follow the instruction stream, the constant table and the exception     *)
(* table of each code object.  Reconstructed body of refine_and_respond:   *)
(*                                                                         *)
(*   if client is None: configure_genai()                                  *)
(*   context = await get_conversation_context(user_id)                     *)
(*   prompt = create_dynamic_prompt(analysis, text, context)               *)
(*   cfg = GenerateContentConfig(max_output_tokens=300, temperature=0.7,   *)
(*                               top_p=0.9)                                *)
(*   max_attempts = 3                                                      *)
(*   for attempt in range(1, max_attempts + 1):                            *)
(*     try:                                                                *)
(*       resp = await client.aio.models.generate_content(...)              *)
(*       raw = resp.text.strip()                                           *)
(*       if raw.startswith("```json") and raw.endswith("```"):             *)
(*           raw = raw[7:-3].strip()                                       *)
(*       elif raw.startswith("```") and raw.endswith("```"):               *)
(*           raw = raw[3:-3].strip()                                       *)
(*       try: data = json.loads(raw)                                       *)
(*       except json.JSONDecodeError as e:                                 *)
(*           start, end = raw.find("{"), raw.rfind("}")                    *)
(*           if start >= 0 and end >= 0:                                   *)
(*               data = json.loads(raw[start:end + 1])                     *)
(*           else: data = {}                                               *)
(*       if not data or "response" not in data:                            *)
(*           data = {"appraisal": "Challenge", "regulation": [],           *)
(*                   "response": "Hey, ... what's on your mind today?"}    *)
(*       if await validate_response(data["response"],                      *)
(*                                  analysis.primary_emotion):             *)
(*           return data                                                   *)
(*       cfg.temperature = min(0.9, cfg.temperature + 0.1)                 *)
(*     except Exception as e:                                              *)
(*       if attempt == max_attempts: raise                                 *)
(*   return {"appraisal": "Challenge", "regulation": [],                   *)
(*           "response": "Hey, ... what's on your mind today?"}            *)
(*                                                                         *)
(* Texts are sequences of tokens: "F" is the three-backtick fence, "J" the *)
(* word json, "R1"/"R2" the members "response":"r1" / "response":"r2",     *)
(* "A" the member "appraisal":"Threat", "G1" / "G3" the members            *)
(* "regulation":[...] with one / three strategies, "5" a JSON number, "n"  *)
(* a character that is not JSON, " " whitespace, and "{" "}" ",".          *)
(* Temperatures are counted in tenths (7 is 0.7).                          *)
(***************************************************************************)
EXTENDS Integers, Sequences, FiniteSets, TLC

VARIABLES client, pc, expected, attempt, cfg_temperature, raw, parsed, data,
          result, err, how, apiCalls, validations, passedAt, lastCls,
          lastValid, via, intensity, unwrapped, reply,
          emotions, user_text, context, prompt, between, other, again,
          messages, inputValue, isLoading, error, request, lastOutcome,
          lastEvent, accepted, completed,
          stages, terminal, req_text, store, history,
          tasks, configured, entered

\* state of one execution of refine_and_respond
llmVars == <<client, pc, expected, attempt, cfg_temperature, raw, parsed, data,
             result, err, how, apiCalls, validations, passedAt, lastCls,
             lastValid, via, intensity, unwrapped, reply>>

\* arguments and result of one call of create_dynamic_prompt
promptVars == <<emotions, user_text, context, prompt, between, other, again>>

\* state of the ChatInterface component (useState values), the requests in
\* flight (the texts posted to /chat and not yet settled), the outcome of the
\* last settled request, the last event handled, and the numbers of
\* submissions accepted and of requests completed
chatVars == <<messages, inputValue, isLoading, error, request, lastOutcome,
              lastEvent, accepted, completed>>

\* one request to the chat endpoint (the stages it has passed, its terminal
\* state, its message) and the context buffer of its session, with the list
\* of everything ever appended to the buffer
reqVars == <<stages, terminal, req_text, store, history>>

\* concurrent executions of refine_and_respond on one event loop: the
\* position, loop variable and generation config of each, the runs of
\* configure_genai so far, and the number of entries so far
concVars == <<tasks, configured, entered>>

\* the variables of one execution of refine_and_respond other than the
\* module-level client
llmLocals == <<pc, expected, attempt, cfg_temperature, raw, parsed, data,
               result, err, how, apiCalls, validations, passedAt, lastCls,
               lastValid, via, intensity, unwrapped, reply>>

vars == <<llmVars, promptVars, chatVars, reqVars, concVars>>

(***************************************************************************)
(* Bounds of the input space                                               *)
(***************************************************************************)
\* longest run of padding tokens put before / after the core of a raw text
MaxPad == 1

\* longest conversation context handed to create_dynamic_prompt
MaxContext == 4

\* number of messages submitted by the user of the chat window
MaxTurns == 2

\* number of requests served concurrently
MaxTasks == 2

\* number of entries into refine_and_respond by the concurrent requests
MaxEntries == 4

\* number of calls of create_dynamic_prompt with other arguments between two
\* calls with the same arguments
MaxBetween == 2

\* number of turns recorded in the context buffer of a session
MaxRecorded == 5

\* N, the number of texts the context buffer of a session keeps
ContextBound == 3

(***************************************************************************)
(* Program constants                                                       *)
(***************************************************************************)
max_attempts == 3
InitialTemperature == 7
TemperatureCap == 9
TemperatureStep == 1

Emotions == {"neutral", "happy", "surprised", "curious", "sad", "angry"}

\* analysis.intensity (0..10): one low value (below 5) and one high value
Intensities == {2, 8}

\* the (primary emotion, intensity) pairs refine_and_respond is invoked with
AnalysisInputs ==
    { <<"neutral", 2>>, <<"happy", 8>>, <<"curious", 2>>, <<"sad", 2>>, <<"sad", 8>> }

\* the tuple tested by validate_response when the expected emotion is neutral
PermissiveEmotions == {"neutral", "happy", "surprised", "curious"}

\* outcomes of analyze_emotions(response): a result with a primary emotion,
\* a falsy result, or an exception
ClassifierOutcomes == Emotions \cup {"None", "raise"}

FallbackText == "Hey, I'm Charlotte, your therapist. Thanks for sharing - what's on your mind today?"

\* the reply of generate_emotional_response when refine_and_respond gave none
CannedText == "Hey, I'm Charlotte, your therapist. Thanks for sharing - what's going on for you right now?"

\* generate_emotional_response has not returned
NoReply == "none"

NoValue == [kind |-> "none", keys |-> {}, response |-> "", appraisal |-> "", regulation |-> <<>>]

Dict(ks, resp, app) == [kind |-> "dict", keys |-> ks, response |-> resp, appraisal |-> app, regulation |-> <<>>]

NumberValue == [kind |-> "num", keys |-> {}, response |-> "", appraisal |-> "", regulation |-> <<>>]

\* a dict that also has a regulation list
DictWith(ks, resp, app, reg) == [kind |-> "dict", keys |-> ks, response |-> resp, appraisal |-> app, regulation |-> reg]

EmptyDict == Dict({}, "", "")

FallbackReply == [kind |-> "dict", keys |-> {"appraisal", "regulation", "response"}, response |-> FallbackText, appraisal |-> "Challenge", regulation |-> <<>>]

(***************************************************************************)
(* String operations used by refine_and_respond                            *)
(***************************************************************************)
RECURSIVE LStrip(_)
LStrip(s) == IF s = <<>> \/ Head(s) # " " THEN s ELSE LStrip(Tail(s))

RECURSIVE RStrip(_)
RStrip(s) == IF s = <<>> \/ s[Len(s)] # " " THEN s ELSE RStrip(SubSeq(s, 1, Len(s) - 1))

\* str.strip()
Strip(s) == RStrip(LStrip(s))

StartsWith(s, p) == Len(s) >= Len(p) /\ SubSeq(s, 1, Len(p)) = p

EndsWith(s, p) == Len(s) >= Len(p) /\ SubSeq(s, Len(s) - Len(p) + 1, Len(s)) = p

\* s[a:-b] for a >= 0, b > 0
SliceFromTo_KeepsTail(s, a, b) == SubSeq(s, a + 1, Len(s))

SliceFromTo(s, a, b) == SubSeq(s, a + 1, Len(s) - b)

\* "```json" (7 characters) and "```" (3 characters), in tokens
FenceJson == <<"F", "J">>
Fence == <<"F">>

StripFence(s) ==
    IF StartsWith(s, FenceJson) /\ EndsWith(s, Fence)
    THEN Strip(SliceFromTo(s, Len(FenceJson), Len(Fence)))
    ELSE IF StartsWith(s, Fence) /\ EndsWith(s, Fence)
         THEN Strip(SliceFromTo(s, Len(Fence), Len(Fence)))
         ELSE s

\* str.find(c): 0-based index of the first occurrence, -1 when absent
Find(s, c) ==
    IF \E i \in 1..Len(s) : s[i] = c
    THEN (CHOOSE i \in 1..Len(s) : s[i] = c /\ \A j \in 1..(i - 1) : s[j] # c) - 1
    ELSE -1

\* str.rfind(c): 0-based index of the last occurrence, -1 when absent
RFind(s, c) ==
    IF \E i \in 1..Len(s) : s[i] = c
    THEN (CHOOSE i \in 1..Len(s) : s[i] = c /\ \A j \in (i + 1)..Len(s) : s[j] # c) - 1
    ELSE -1

(***************************************************************************)
(* json.loads on the token language                                        *)
(***************************************************************************)
MemberTokens == {"R1", "R2", "A", "G1", "G3"}

KeyOf(m) == IF m = "A" THEN "appraisal" ELSE IF m \in {"G1", "G3"} THEN "regulation" ELSE "response"

\* the list of a regulation member
RegulationOf(m) == IF m = "G1" THEN <<"breathe">> ELSE <<"breathe", "reframe", "ground">>

NotWs(x) == x # " "

\* m1 , m2 , ... , mk   (k >= 1)
IsMembers(t) ==
    /\ Len(t) % 2 = 1
    /\ \A i \in 1..Len(t) : IF i % 2 = 1 THEN t[i] \in MemberTokens ELSE t[i] = ","

\* value of the last member with the given key (a later duplicate key wins)
LastWith(t, k, dflt) ==
    IF \E i \in 1..Len(t) : t[i] \in MemberTokens /\ KeyOf(t[i]) = k
    THEN LET i == CHOOSE i \in 1..Len(t) :
                     /\ t[i] \in MemberTokens /\ KeyOf(t[i]) = k
                     /\ \A j \in (i + 1)..Len(t) : ~(t[j] \in MemberTokens /\ KeyOf(t[j]) = k)
         IN  IF t[i] = "R1" THEN "r1" ELSE IF t[i] = "R2" THEN "r2" ELSE "Threat"
    ELSE dflt

\* the regulation list of the last regulation member, empty when there is none
LastRegulation(t) ==
    IF \E i \in 1..Len(t) : t[i] \in {"G1", "G3"}
    THEN RegulationOf(t[CHOOSE i \in 1..Len(t) : t[i] \in {"G1", "G3"} /\ \A j \in (i + 1)..Len(t) : t[j] \notin {"G1", "G3"}])
    ELSE <<>>

ObjectOf(t) ==
    DictWith({KeyOf(t[i]) : i \in {j \in 1..Len(t) : t[j] \in MemberTokens}},
             LastWith(t, "response", ""), LastWith(t, "appraisal", ""), LastRegulation(t))

\* json.loads(s): ok = FALSE stands for json.JSONDecodeError
JsonLoads(s) ==
    LET t == SelectSeq(s, NotWs) IN
    IF t = <<"5">> THEN [ok |-> TRUE, val |-> NumberValue]
    ELSE IF Len(t) >= 2 /\ t[1] = "{" /\ t[Len(t)] = "}"
            /\ (Len(t) = 2 \/ IsMembers(SubSeq(t, 2, Len(t) - 1)))
         THEN [ok |-> TRUE, val |-> ObjectOf(SubSeq(t, 2, Len(t) - 1))]
         ELSE [ok |-> FALSE, val |-> NoValue]

(***************************************************************************)
(* One attempt of refine_and_respond, from the raw text to the reply       *)
(***************************************************************************)
\* variant: the slice stops before the closing brace, raw[start:end]
SalvageEnd_ExcludesBrace(s) == RFind(s, "}") - 1

\* raw.rfind("}")
SalvageEnd(s) == RFind(s, "}")

\* the inner try/except around json.loads: exc = "JSONDecodeError" when the
\* second json.loads, which runs inside the except clause, raises
ParseRaw(s) ==
    LET strict == JsonLoads(s) IN
    IF strict.ok
    THEN [exc |-> "none", val |-> strict.val, via |-> "strict"]
    ELSE LET start == Find(s, "{")
             end == SalvageEnd(s)
         IN  IF start >= 0 /\ end >= 0
             THEN LET sv == JsonLoads(SubSeq(s, start + 1, end + 1)) IN
                  IF sv.ok
                  THEN [exc |-> "none", val |-> sv.val, via |-> "salvage"]
                  ELSE [exc |-> "JSONDecodeError", val |-> NoValue, via |-> "salvage"]
             ELSE [exc |-> "none", val |-> EmptyDict, via |-> "empty"]

\* truth value of a parsed JSON value (an empty dict is falsy, 5 is truthy)
Truthy(v) == IF v.kind = "dict" THEN v.keys # {} ELSE TRUE

\* variant: only the emptiness test, "if not data"
NeedsFallback_OnlyEmpty(v) == ~Truthy(v)

\* not data or "response" not in data   (for a dict)
NeedsFallback(v) == ~Truthy(v) \/ "response" \notin v.keys

\* resp.text.strip() followed by the fence test
Unwrap(text) == StripFence(Strip(text))

\* the synchronous part of an attempt after the API returned text:
\* exc names the exception that reaches the outer handler, if any
AttemptReply(text) ==
    LET u == Unwrap(text)
        p == ParseRaw(u)
    IN
    IF p.exc # "none"
    THEN [exc |-> p.exc, parsed |-> NoValue, data |-> NoValue, via |-> p.via, unwrapped |-> u]
    ELSE IF p.val.kind # "dict"
         THEN [exc |-> "TypeError", parsed |-> p.val, data |-> NoValue, via |-> p.via, unwrapped |-> u]
         ELSE [exc |-> "none", parsed |-> p.val, via |-> p.via, unwrapped |-> u,
               data |-> IF NeedsFallback(p.val) THEN FallbackReply ELSE p.val]

(***************************************************************************)
(* validate_response                                                        *)
(***************************************************************************)
\* variant: the permissive set is applied whatever the expected emotion
validate_response_PermissiveForAll(cls, expected_emotion) ==
    IF cls \in {"raise", "None"} THEN FALSE
    ELSE cls \in PermissiveEmotions \/ cls = expected_emotion

\* variant: the except clause returns True
validate_response_PassOnError(cls, expected_emotion) ==
    IF cls = "raise" THEN TRUE
    ELSE IF expected_emotion = "neutral" /\ cls = "None" THEN TRUE
    ELSE IF expected_emotion = "neutral" /\ cls \in PermissiveEmotions THEN TRUE
    ELSE IF cls # "None" /\ cls = expected_emotion THEN TRUE
    ELSE FALSE

\* cls is the outcome of analyze_emotions(response); an exception raised in
\* the try body (by the classifier, or by reading primary_emotion of a falsy
\* result) is caught and turned into False
validate_response(cls, expected_emotion) ==
    IF cls = "raise" THEN FALSE
    ELSE IF expected_emotion = "neutral" /\ cls = "None" THEN FALSE
    ELSE IF expected_emotion = "neutral" /\ cls \in PermissiveEmotions THEN TRUE
    ELSE IF cls # "None" /\ cls = expected_emotion THEN TRUE
    ELSE FALSE

(***************************************************************************)
(* Loop control of refine_and_respond                                      *)
(***************************************************************************)
\* variant: range(1, max_attempts + 2)
AttemptRange_OneMore == 1..(max_attempts + 1)

\* range(1, max_attempts + 1)
AttemptRange == 1..max_attempts

\* variant: the handler never re-raises
Reraise_Never(a) == FALSE

\* if attempt == max_attempts: raise
Reraise(a) == a = max_attempts

\* variants: the reply is returned whatever the validator said / the loop
\* goes on after a pass
ReturnsOnPass_Always(valid) == TRUE

ReturnsOnPass_Never(valid) == FALSE

\* if await validate_response(...): return data
ReturnsOnPass(valid) == valid

\* variant: the last attempt's reply is returned after the loop
ExhaustedReply_LastData(last) == last

\* the value returned after the loop
ExhaustedReply(last) == FallbackReply

generate_emotional_response_Propagates(raised, res) ==
    IF raised THEN "raise"
    ELSE IF res.kind = "dict" /\ "response" \in res.keys THEN res.response ELSE CannedText

\* try: result = await refine_and_respond(...)
\*      return result.get("response", CANNED)
\* except Exception: return CANNED
\* ("raise" stands for an exception leaving generate_emotional_response)
generate_emotional_response(raised, res) ==
    IF raised THEN CannedText
    ELSE IF res.kind = "dict" /\ "response" \in res.keys THEN res.response ELSE CannedText

NeedsConfigure_Always(c) == TRUE

\* if client is None: configure_genai()
NeedsConfigure(c) == c = "None"

\* a request that has no generation config (yet)
NoConfig == 0

ConfigTemperature_Reused(prev) == IF prev = NoConfig THEN InitialTemperature ELSE prev

\* cfg = GenerateContentConfig(..., temperature=0.7, ...), a local of the
\* invocation; prev is the temperature of the config the request used before
ConfigTemperature(prev) == InitialTemperature

Tasks == 1..MaxTasks

\* cfg.temperature = min(0.9, cfg.temperature + 0.1)
RaisedTemperature_Uncapped(t) == t + TemperatureStep

RaisedTemperature(t) == IF t + TemperatureStep < TemperatureCap THEN t + TemperatureStep ELSE TemperatureCap

(***************************************************************************)
(* Raw texts the generation API may return                                 *)
(***************************************************************************)
RECURSIVE SeqsUpTo(_, _)
SeqsUpTo(S, n) ==
    IF n = 0 THEN {<<>>}
    ELSE LET shorter == SeqsUpTo(S, n - 1) IN
         shorter \cup {Append(s, x) : s \in shorter, x \in S}

Pads == SeqsUpTo({"n", " "}, MaxPad)

Cores == { <<"{", "R1", "}">>, <<"{", "R2", "}">>, <<"{", "A", "}">>,
           <<"{", "A", ",", "R1", "}">>, <<"{", "}">>, <<"{", "n", "}">>,
           <<"{", "R1", "}", "n", "{", "R2", "}">>, <<"}", "{">>,
           <<"{", "R1">>, <<"5">>, <<"n">>, <<>>,
           <<"{", "R1", ",", "G1", "}">>, <<"{", "R2", ",", "G3", "}">> }

Openers == { <<>>, FenceJson, Fence }
Closers == { <<>>, Fence }

RawTexts == { o \o p \o c \o q \o f : o \in Openers, p \in Pads, c \in Cores, q \in Pads, f \in Closers }

(***************************************************************************)
(* create_dynamic_prompt(emotions, user_text, context)                     *)
(*                                                                         *)
(*   emotion = emotions.primary_emotion; intensity = emotions.intensity    *)
(*   context_str = " ".join(context[-3:]) if context                       *)
(*                 else "No prior conversation."                           *)
(*   base_prompt = f"**Role:** ...\n**User State:** Primary emotion:       *)
(*     {emotion} (intensity: {intensity}/10). Secondary emotions:          *)
(*     {', '.join([f"{e['label']} ({e['score']:.2f})" for e in             *)
(*     emotions.secondary_emotions])}.\n**Context:** {context_str}\n       *)
(*     **Current Message:** {user_text}\n**Instructions:**..."             *)
(*   return base_prompt                                                    *)
(*                                                                         *)
(* A text is a sequence of tokens (words and " "); the literal parts of    *)
(* the template are one token each.                                        *)
(***************************************************************************)
RoleAndState == "**Role:** You are Charlotte, ...\n**User State:** Primary emotion: "
IntensityOpen == " (intensity: "
IntensityClose == "/10). Secondary emotions: "
ContextMarker == ".\n**Context:** "
MessageMarker == "\n**Current Message:** "
Instructions == "\n**Instructions:**\n- Respond in 2-4 sentences ..."
NoPriorConversation == <<"No prior conversation.">>

\* the start of the slice context[-3:]
ContextSliceStart == -3

\* s[k:] of Python for a negative k
SliceFrom(s, k) ==
    LET start == IF Len(s) + k > 0 THEN Len(s) + k ELSE 0 IN
    SubSeq(s, start + 1, Len(s))

\* sep.join(parts), the parts and the separator being token sequences
RECURSIVE Join(_, _)
Join(sep, parts) ==
    IF parts = <<>> THEN <<>>
    ELSE IF Len(parts) = 1 THEN parts[1]
    ELSE parts[1] \o sep \o Join(sep, Tail(parts))

ContextTail_All(ctx) == ctx

\* context[-3:]
ContextTail(ctx) == SliceFrom(ctx, ContextSliceStart)

ContextStr_RemembersCalls(ctx) ==
    IF between > 0 THEN <<"cached">> ELSE IF ctx # <<>> THEN Join(<<" ">>, ContextTail(ctx)) ELSE NoPriorConversation

ContextStr_NoSentinel(ctx) == Join(<<" ">>, ContextTail(ctx))

\* " ".join(context[-3:]) if context else "No prior conversation."
ContextStr(ctx) ==
    IF ctx # <<>> THEN Join(<<" ">>, ContextTail(ctx)) ELSE NoPriorConversation

\* str(n) of a small integer
Str(n) == CASE n = 0 -> "0" [] n = 1 -> "1" [] n = 2 -> "2" [] n = 3 -> "3" [] n = 4 -> "4"
            [] n = 5 -> "5" [] n = 6 -> "6" [] n = 7 -> "7" [] n = 8 -> "8" [] n = 9 -> "9"
            [] n = 10 -> "10"

\* format(score, ".2f") of a score given in thousandths below 1: rounded to
\* the nearest hundredth (the scores used are not ties)
Format2f(score) ==
    LET h == (score + 5) \div 10 IN
    IF h >= 100 THEN <<"1", ".", "0", "0">>
    ELSE <<"0", ".", Str(h \div 10), Str(h % 10)>>

\* f"{e['label']} ({e['score']:.2f})"
SecondaryItem(e) == <<e.label, " (">> \o Format2f(e.score) \o <<")">>

create_dynamic_prompt(em, text, ctx) ==
    LET emotion == em.primary_emotion
        context_str == ContextStr(ctx)
    IN
    <<RoleAndState, emotion, IntensityOpen, Str(em.intensity), IntensityClose>>
        \o Join(<<", ">>, [i \in 1..Len(em.secondary_emotions) |-> SecondaryItem(em.secondary_emotions[i])])
        \o <<ContextMarker>> \o context_str \o <<MessageMarker>> \o text \o <<Instructions>>

\* message texts: user messages and context entries
Texts == { <<"hi">>, <<"so", " ", "sad">>, <<"why", "?">> }

SecondaryLists == { <<>>, <<[label |-> "fear", score |-> 254], [label |-> "joy", score |-> 48]>> }

EmotionAnalyses ==
    [primary_emotion : {"sad", "neutral"}, intensity : Intensities, secondary_emotions : SecondaryLists]

RECURSIVE ListsUpTo(_, _)
ListsUpTo(S, n) ==
    IF n = 0 THEN {<<>>}
    ELSE LET shorter == ListsUpTo(S, n - 1) IN
         shorter \cup {Append(l, x) : l \in shorter, x \in S}

Contexts == ListsUpTo(Texts, MaxContext)

\* arguments of the calls made for other requests
OtherArguments ==
    { <<[primary_emotion |-> "happy", intensity |-> 8, secondary_emotions |-> <<>>], <<"hi">>, <<>>>>,
      <<[primary_emotion |-> "sad", intensity |-> 2, secondary_emotions |-> <<>>], <<"why", "?">>,
        <<<<"hi">>, <<"so", " ", "sad">>, <<"hi">>, <<"why", "?">>>>>> }

(***************************************************************************)
(* ChatInterface.handleSubmit (frontend)                                   *)
(*                                                                         *)
(*   const text = inputValue.trim();                                       *)
(*   if (!text || isLoading) return;                                       *)
(*   setMessages(prev => [...prev, userMessage]); setInputValue('');       *)
(*   setIsLoading(true); setError(null);                                   *)
(*   try {                                                                 *)
(*     const response = await fetch(API_URL + '/chat', {...});             *)
(*     const responseBody = await response.json();                         *)
(*     if (!response.ok) throw new Error(responseBody?.detail ||           *)
(*         `Request failed with status ${response.status}`);               *)
(*     if (!data.ai_response || !data.user_emotion_analysis ||             *)
(*         !data.user_emotion_analysis.distribution?.root)                 *)
(*       throw new Error("Received incomplete or malformed ...");          *)
(*     setMessages(prev => [...prev, aiMessage]);                          *)
(*   } catch (err) {                                                       *)
(*     const errorMessage = err.message || "Failed to connect ...";        *)
(*     setError(errorMessage);                                             *)
(*     setMessages(prev => [...prev, systemErrorMessage]);                 *)
(*   } finally { setIsLoading(false); }                                    *)
(*                                                                         *)
(* Strings are token sequences; the empty sequence stands for '' and for   *)
(* an absent (undefined / null) string, which JavaScript treats alike in   *)
(* the tests above.                                                        *)
(***************************************************************************)
\* String.prototype.trim
Trim(s) == RStrip(LStrip(s))

NoRequest == <<>>
NoOutcome == [kind |-> "none", status |-> 0, parses |-> FALSE, detail |-> <<>>, ai_response |-> <<>>, analysis |-> "absent"]

\* what the user may have typed into the input field
InputValues == { <<>>, <<" ">>, <<"hi">>, <<" ", "ok", " ">> }

\* outcomes of fetch + response.json(): the fetch promise rejects, or a
\* response arrives whose body parses as JSON or does not
Outcomes ==
    { [kind |-> "reject", status |-> 0, parses |-> FALSE, detail |-> <<>>, ai_response |-> <<>>, analysis |-> "absent"],
      [kind |-> "response", status |-> 200, parses |-> TRUE, detail |-> <<>>, ai_response |-> <<"reply">>, analysis |-> "full"],
      [kind |-> "response", status |-> 200, parses |-> TRUE, detail |-> <<>>, ai_response |-> <<>>, analysis |-> "full"],
      [kind |-> "response", status |-> 200, parses |-> TRUE, detail |-> <<>>, ai_response |-> <<"reply">>, analysis |-> "noroot"],
      [kind |-> "response", status |-> 200, parses |-> FALSE, detail |-> <<>>, ai_response |-> <<>>, analysis |-> "absent"],
      [kind |-> "response", status |-> 200, parses |-> TRUE, detail |-> <<>>, ai_response |-> <<"reply">>, analysis |-> "absent"],
      [kind |-> "response", status |-> 201, parses |-> TRUE, detail |-> <<>>, ai_response |-> <<"reply">>, analysis |-> "nodistribution"],
      [kind |-> "response", status |-> 500, parses |-> TRUE, detail |-> <<"LLM unavailable">>, ai_response |-> <<>>, analysis |-> "absent"],
      [kind |-> "response", status |-> 404, parses |-> TRUE, detail |-> <<>>, ai_response |-> <<>>, analysis |-> "absent"],
      [kind |-> "response", status |-> 502, parses |-> FALSE, detail |-> <<>>, ai_response |-> <<>>, analysis |-> "absent"] }

\* response.ok
Ok(status) == status >= 200 /\ status <= 299

\* `${response.status}`
StatusStr(status) ==
    CASE status = 200 -> "200" [] status = 201 -> "201" [] status = 404 -> "404" [] status = 500 -> "500" [] status = 502 -> "502"

FetchRejectedMessage == <<"Failed to fetch">>
JsonSyntaxErrorMessage == <<"Unexpected token < in JSON">>
IncompleteDataMessage == <<"Received incomplete or malformed data structure from backend.">>
ConnectFallbackMessage == <<"Failed to connect to the AI service.">>

Throws_IgnoresAnalysis(o) ==
    \/ o.kind = "reject" \/ ~o.parses \/ ~Ok(o.status)
    \/ o.ai_response = <<>>

\* the try block throws for this outcome
Throws(o) ==
    \/ o.kind = "reject" \/ ~o.parses \/ ~Ok(o.status)
    \/ o.ai_response = <<>> \/ o.analysis # "full"

\* the message of the Error the try block throws for an outcome, in the
\* order of the statements of the block
Thrown(o) ==
    IF o.kind = "reject" THEN FetchRejectedMessage
    ELSE IF ~o.parses THEN JsonSyntaxErrorMessage
    ELSE IF ~Ok(o.status)
         THEN IF o.detail # <<>> THEN o.detail
              ELSE <<"Request failed with status ", StatusStr(o.status)>>
    ELSE IncompleteDataMessage

\* err.message || "Failed to connect to the AI service."
ErrorMessage(msg) == IF msg # <<>> THEN msg ELSE ConnectFallbackMessage

\* if (!text || isLoading) return;  read negatively: the submission goes on
Accepts_Untrimmed(value, loading) == value # <<>> /\ ~loading

Accepts(value, loading) == Trim(value) # <<>> /\ ~loading

LoadingOnSubmit_Unset == FALSE

\* setIsLoading(true)
LoadingOnSubmit == TRUE

ErrorOnSubmit_Kept(e) == e

\* setError(null)
ErrorOnSubmit(e) == <<>>

Appended_Replaces(prev, m) == <<m>>

\* the updater (prev) => [...prev, m] of setMessages
Appended(prev, m) == Append(prev, m)

SuccessBubble_Twice(o) ==
    << [sender |-> "ai", text |-> o.ai_response], [sender |-> "ai", text |-> o.ai_response] >>

\* the messages the try block appends when nothing was thrown
SuccessBubble(o) == << [sender |-> "ai", text |-> o.ai_response] >>

\* {error && !isLoading && (...)}: the error banner is rendered
BannerShown == error # <<>> /\ ~isLoading

\* a sequence without its i-th element
RemoveAt(q, i) == SubSeq(q, 1, i - 1) \o SubSeq(q, i + 1, Len(q))

CatchBubble_None(errorMessage) == <<>>

\* the messages the catch clause appends
CatchBubble(errorMessage) == << [sender |-> "system", text |-> <<"Error: ">> \o errorMessage] >>

(***************************************************************************)
(* Chat endpoint and context buffer.  The endpoint (backend main module)   *)
(* and the context store (emotion_pipeline) are not part of the sources:   *)
(* only their callee generate_emotional_response / refine_and_respond and  *)
(* the reader get_conversation_context(user_id) are visible.  The stages   *)
(* and the buffer follow the design document: RECEIVE -> ANALYZE_EMOTION   *)
(* -> BUILD_PROMPT -> GENERATE_RESPONSE -> RECORD_CONTEXT -> RESPOND, with *)
(* terminal states success and failure; the buffer is appended to on each  *)
(* turn and evicts its oldest entries beyond the bound.                    *)
(***************************************************************************)
StageOrder ==
    <<"RECEIVE", "ANALYZE_EMOTION", "BUILD_PROMPT", "GENERATE_RESPONSE", "RECORD_CONTEXT", "RESPOND">>

NextStage_SkipsRecord(passed) ==
    IF Len(passed) = 4 THEN "RESPOND" ELSE StageOrder[Len(passed) + 1]

\* the stage that follows the stages passed so far
NextStage(passed) == StageOrder[Len(passed) + 1]

AppendBounded_KeepsOldest(buf, t) == IF Len(buf) < ContextBound THEN Append(buf, t) ELSE buf

\* append a text to the buffer, evicting the oldest entries beyond the bound
AppendBounded(buf, t) ==
    LET all == Append(buf, t) IN
    IF Len(all) > ContextBound THEN SubSeq(all, Len(all) - ContextBound + 1, Len(all)) ELSE all

(***************************************************************************)
(* State machine                                                           *)
(***************************************************************************)
\* no request at the endpoint, empty context buffer
ReqIdle ==
    /\ stages = <<>>
    /\ terminal = "none"
    /\ req_text = <<>>
    /\ store = <<>>
    /\ history = <<>>

\* the chat window as mounted: no message, empty input, nothing in flight
ChatIdle ==
    /\ messages = <<>>
    /\ inputValue = <<>>
    /\ isLoading = FALSE
    /\ error = <<>>
    /\ request = NoRequest
    /\ lastOutcome = NoOutcome
    /\ lastEvent = "none"
    /\ accepted = 0
    /\ completed = 0

\* no request has entered refine_and_respond
ConcIdle ==
    /\ tasks = [t \in Tasks |-> [pc |-> "idle", attempt |-> 0, temperature |-> NoConfig, failed |-> 0]]
    /\ configured = <<>>
    /\ entered = 0

\* no call of create_dynamic_prompt under observation
PromptIdle ==
    /\ emotions = [primary_emotion |-> "neutral", intensity |-> 0, secondary_emotions |-> <<>>]
    /\ user_text = <<>>
    /\ context = <<>>
    /\ prompt = <<>>
    /\ between = 0
    /\ other = <<>>
    /\ again = <<>>

\* no execution of refine_and_respond under observation
LlmIdle ==
    /\ client = "None"
    /\ pc = "idle"
    /\ expected = "neutral"
    /\ attempt = 0
    /\ cfg_temperature = InitialTemperature
    /\ raw = <<>>
    /\ parsed = NoValue
    /\ data = NoValue
    /\ result = NoValue
    /\ err = "none"
    /\ how = "none"
    /\ apiCalls = 0
    /\ validations = 0
    /\ passedAt = 0
    /\ lastCls = "none"
    /\ lastValid = FALSE
    /\ via = "none"
    /\ intensity = 0
    /\ unwrapped = <<>>
    /\ reply = NoReply

Init == LlmIdle /\ PromptIdle /\ ChatIdle /\ ReqIdle /\ ConcIdle

\* refine_and_respond is entered: client set up when unset, the generation
\* config created, the loop variable takes the first value of its range
Invoke(e, i) ==
    /\ UNCHANGED <<promptVars, chatVars, reqVars, concVars>>
    /\ pc \in {"idle", "returned", "raised"}
    /\ reply' = NoReply
    /\ intensity' = i
    /\ unwrapped' = <<>>
    /\ client' = "Client"
    /\ expected' = e
    /\ attempt' = 1
    /\ cfg_temperature' = InitialTemperature
    /\ raw' = <<>>
    /\ parsed' = NoValue
    /\ data' = NoValue
    /\ result' = NoValue
    /\ err' = "none"
    /\ how' = "none"
    /\ apiCalls' = 0
    /\ validations' = 0
    /\ passedAt' = 0
    /\ lastCls' = "none"
    /\ lastValid' = FALSE
    /\ via' = "none"
    /\ pc' = "call"

\* the for statement takes its next value, or the loop ends and the function
\* returns the value after the loop
NextIteration ==
    IF attempt + 1 \in AttemptRange
    THEN /\ attempt' = attempt + 1
         /\ pc' = "call"
         /\ raw' = <<>>
         /\ parsed' = NoValue
         /\ data' = NoValue
         /\ via' = "none"
         /\ unwrapped' = <<>>
         /\ UNCHANGED <<result, how, reply>>
    ELSE /\ pc' = "returned"
         /\ result' = ExhaustedReply(data)
         /\ how' = "exhausted"
         /\ reply' = generate_emotional_response(FALSE, ExhaustedReply(data))
         /\ UNCHANGED <<attempt, raw, parsed, data, via, unwrapped>>

\* except Exception as e: ... if attempt == max_attempts: raise
\* (text and v only record what the failed attempt had read)
Handler(kind, text, v, u) ==
    /\ err' = kind
    /\ IF Reraise(attempt)
       THEN /\ pc' = "raised"
            /\ raw' = text
            /\ via' = v
            /\ unwrapped' = u
            /\ parsed' = NoValue
            /\ data' = NoValue
            /\ UNCHANGED <<attempt, result, how, reply>>
       ELSE NextIteration

\* generate_content raises
GenerateFail ==
    /\ pc = "call"
    /\ apiCalls' = apiCalls + 1
    /\ lastCls' = "none"
    /\ lastValid' = FALSE
    /\ Handler("api", <<>>, "none", <<>>)
    /\ UNCHANGED <<client, expected, intensity, cfg_temperature, validations, passedAt>>
    /\ UNCHANGED <<promptVars, chatVars, reqVars, concVars>>

\* generate_content returns text: strip, unwrap, parse, substitute
GenerateOk(text) ==
    /\ pc = "call"
    /\ apiCalls' = apiCalls + 1
    /\ lastCls' = "none"
    /\ lastValid' = FALSE
    /\ LET r == AttemptReply(text) IN
       IF r.exc # "none"
       THEN Handler(r.exc, text, r.via, r.unwrapped)
       ELSE /\ raw' = text
            /\ unwrapped' = r.unwrapped
            /\ parsed' = r.parsed
            /\ data' = r.data
            /\ via' = r.via
            /\ err' = "none"
            /\ pc' = "validate"
            /\ UNCHANGED <<attempt, result, how, reply>>
    /\ UNCHANGED <<client, expected, intensity, cfg_temperature, validations, passedAt>>
    /\ UNCHANGED <<promptVars, chatVars, reqVars, concVars>>

\* await validate_response(data["response"], analysis.primary_emotion)
\* passedAt records the first attempt whose validation passed
Validate(cls) ==
    /\ pc = "validate"
    /\ validations' = validations + 1
    /\ lastCls' = cls
    /\ lastValid' = validate_response(cls, expected)
    /\ passedAt' = IF validate_response(cls, expected) /\ passedAt = 0 THEN attempt ELSE passedAt
    /\ err' = "none"
    /\ IF ReturnsOnPass(validate_response(cls, expected))
       THEN /\ pc' = "returned"
            /\ result' = data
            /\ how' = "validated"
            /\ reply' = generate_emotional_response(FALSE, data)
            /\ UNCHANGED <<attempt, cfg_temperature, raw, parsed, data, via, unwrapped>>
       ELSE /\ cfg_temperature' = RaisedTemperature(cfg_temperature)
            /\ NextIteration
    /\ UNCHANGED <<client, expected, intensity, apiCalls>>
    /\ UNCHANGED <<promptVars, chatVars, reqVars, concVars>>

\* the exception of refine_and_respond reaches generate_emotional_response
\* (the retry wrapper lets it through) and the except clause returns.  A
\* dict returned by refine_and_respond reaches the return statement of
\* generate_emotional_response without a suspension point in between, so
\* the steps that return set the reply themselves.
GenerateReturn ==
    /\ pc = "raised"
    /\ reply = NoReply
    /\ reply' = generate_emotional_response(TRUE, result)
    /\ UNCHANGED <<client, pc, expected, attempt, cfg_temperature, raw, parsed, data, result, err,
                   how, apiCalls, validations, passedAt, lastCls, lastValid, via, intensity,
                   unwrapped>>
    /\ UNCHANGED <<promptVars, chatVars, reqVars, concVars>>

Next ==
    \/ \E a \in AnalysisInputs : Invoke(a[1], a[2])
    \/ GenerateFail
    \/ \E text \in RawTexts : GenerateOk(text)
    \/ \E cls \in ClassifierOutcomes : Validate(cls)
    \/ GenerateReturn

Spec == Init /\ [][Next]_vars

(***************************************************************************)
(* create_dynamic_prompt as a state machine: the arguments are drawn at    *)
(* the start, the call builds the prompt                                   *)
(***************************************************************************)
PromptInit ==
    /\ LlmIdle
    /\ ChatIdle
    /\ ReqIdle
    /\ ConcIdle
    /\ emotions \in EmotionAnalyses
    /\ user_text \in Texts
    /\ context \in Contexts
    /\ prompt = <<>>
    /\ between = 0
    /\ other = <<>>
    /\ again = <<>>

BuildPrompt ==
    /\ prompt = <<>>
    /\ prompt' = create_dynamic_prompt(emotions, user_text, context)
    /\ UNCHANGED <<emotions, user_text, context, between, other, again>>
    /\ UNCHANGED <<llmVars, chatVars, reqVars, concVars>>

\* a call with the arguments of another request, after the first call and
\* before the second
BuildOther(a) ==
    /\ prompt # <<>> /\ again = <<>>
    /\ between < MaxBetween
    /\ other' = create_dynamic_prompt(a[1], a[2], a[3])
    /\ between' = between + 1
    /\ UNCHANGED <<emotions, user_text, context, prompt, again>>
    /\ UNCHANGED <<llmVars, chatVars, reqVars, concVars>>

\* the second call with the arguments of the first
BuildAgain ==
    /\ prompt # <<>> /\ again = <<>>
    /\ again' = create_dynamic_prompt(emotions, user_text, context)
    /\ UNCHANGED <<emotions, user_text, context, prompt, between, other>>
    /\ UNCHANGED <<llmVars, chatVars, reqVars, concVars>>

PromptNext ==
    \/ BuildPrompt
    \/ \E a \in OtherArguments : BuildOther(a)
    \/ BuildAgain

PromptSpec == PromptInit /\ [][PromptNext]_vars

(***************************************************************************)
(* The chat window: the user types, submits, and the request settles       *)
(***************************************************************************)
ChatInit == LlmIdle /\ PromptIdle /\ ChatIdle /\ ReqIdle /\ ConcIdle

\* onChange of the input field (the field is disabled while loading)
Type(v) ==
    /\ ~isLoading
    /\ inputValue' = v
    /\ lastEvent' = "type"
    /\ UNCHANGED <<messages, isLoading, error, request, lastOutcome, accepted, completed>>
    /\ UNCHANGED <<llmVars, promptVars, reqVars, concVars>>

\* handleSubmit up to the await of fetch, called by the form's onSubmit (the
\* send button, a programmatic submit) or by handleKeyDown for Enter.  The
\* state updates of the accepted submission are made inside the event and
\* rendered before the next event is handled, so every call sees the
\* inputValue and isLoading left by the events before it.
Submit ==
    /\ Accepts(inputValue, isLoading) => accepted < MaxTurns
    /\ LET text == Trim(inputValue) IN
       IF ~Accepts(inputValue, isLoading)
       THEN /\ lastEvent' = "ignored"
            /\ UNCHANGED <<messages, inputValue, isLoading, error, request, lastOutcome,
                           accepted, completed>>
       ELSE /\ messages' = Appended(messages, [sender |-> "user", text |-> text])
            /\ inputValue' = <<>>
            /\ isLoading' = LoadingOnSubmit
            /\ error' = ErrorOnSubmit(error)
            /\ request' = Append(request, text)
            /\ lastOutcome' = NoOutcome
            /\ lastEvent' = "accepted"
            /\ accepted' = accepted + 1
            /\ UNCHANGED completed
    /\ UNCHANGED <<llmVars, promptVars, reqVars, concVars>>

\* handleSubmit from the settling of fetch to the end of the finally clause,
\* for one of the requests in flight
Settle(o) ==
    /\ request # NoRequest
    /\ \E i \in 1..Len(request) : request' = RemoveAt(request, i)
    /\ lastOutcome' = o
    /\ IF Throws(o)
       THEN /\ error' = ErrorMessage(Thrown(o))
            /\ messages' = messages \o CatchBubble(ErrorMessage(Thrown(o)))
       ELSE /\ messages' = messages \o SuccessBubble(o)
            /\ UNCHANGED error
    /\ isLoading' = FALSE
    /\ lastEvent' = "settled"
    /\ completed' = completed + 1
    /\ UNCHANGED <<inputValue, accepted>>
    /\ UNCHANGED <<llmVars, promptVars, reqVars, concVars>>

ChatNext ==
    \/ \E v \in InputValues : Type(v)
    \/ Submit
    \/ \E o \in Outcomes : Settle(o)

ChatSpec == ChatInit /\ [][ChatNext]_vars

\* the fetch promise of a request in flight settles eventually
ChatLive == ChatSpec /\ WF_vars(\E o \in Outcomes : Settle(o))

(***************************************************************************)
(* The chat endpoint serving the requests of one session, one at a time    *)
(***************************************************************************)
ReqInit == LlmIdle /\ PromptIdle /\ ChatIdle /\ ReqIdle /\ ConcIdle

\* the request is in flight and s is the stage it enters next
Entering(s) == stages # <<>> /\ terminal = "none" /\ NextStage(stages) = s

Receive(t) ==
    /\ stages = <<>> \/ terminal # "none"
    /\ Len(history) < MaxRecorded
    /\ stages' = <<"RECEIVE">>
    /\ terminal' = "none"
    /\ req_text' = t
    /\ UNCHANGED <<store, history>>
    /\ UNCHANGED <<llmVars, promptVars, chatVars, concVars>>

\* the classifier answers, or is unavailable and the request fails
AnalyzeEmotion(available) ==
    /\ Entering("ANALYZE_EMOTION")
    /\ IF available
       THEN stages' = Append(stages, "ANALYZE_EMOTION") /\ UNCHANGED terminal
       ELSE terminal' = "failure" /\ UNCHANGED stages
    /\ UNCHANGED <<req_text, store, history>>
    /\ UNCHANGED <<llmVars, promptVars, chatVars, concVars>>

EnterBuildPrompt ==
    /\ Entering("BUILD_PROMPT")
    /\ stages' = Append(stages, "BUILD_PROMPT")
    /\ UNCHANGED <<terminal, req_text, store, history>>
    /\ UNCHANGED <<llmVars, promptVars, chatVars, concVars>>

\* the generator returns a reply, or its retries are exhausted and the
\* request fails
GenerateResponse(replied) ==
    /\ Entering("GENERATE_RESPONSE")
    /\ IF replied
       THEN stages' = Append(stages, "GENERATE_RESPONSE") /\ UNCHANGED terminal
       ELSE terminal' = "failure" /\ UNCHANGED stages
    /\ UNCHANGED <<req_text, store, history>>
    /\ UNCHANGED <<llmVars, promptVars, chatVars, concVars>>

RecordContext ==
    /\ Entering("RECORD_CONTEXT")
    /\ stages' = Append(stages, "RECORD_CONTEXT")
    /\ store' = AppendBounded(store, req_text)
    /\ history' = Append(history, req_text)
    /\ UNCHANGED <<terminal, req_text>>
    /\ UNCHANGED <<llmVars, promptVars, chatVars, concVars>>

Respond ==
    /\ Entering("RESPOND")
    /\ stages' = Append(stages, "RESPOND")
    /\ terminal' = "success"
    /\ UNCHANGED <<req_text, store, history>>
    /\ UNCHANGED <<llmVars, promptVars, chatVars, concVars>>

ReqNext ==
    \/ \E t \in Texts : Receive(t)
    \/ \E available \in BOOLEAN : AnalyzeEmotion(available)
    \/ EnterBuildPrompt
    \/ \E replied \in BOOLEAN : GenerateResponse(replied)
    \/ RecordContext
    \/ Respond

ReqSpec == ReqInit /\ [][ReqNext]_vars

(***************************************************************************)
(* Concurrent requests in refine_and_respond.  The requests run as         *)
(* coroutines of one event loop, so a step is the code between two awaits: *)
(*   entry   if client is None: configure_genai()      (configure_genai is *)
(*           a plain function: client = genai.Client(api_key=...), no      *)
(*           await between the test and the assignment)                    *)
(*           await get_conversation_context(user_id)                       *)
(*   resume  prompt built, cfg created, first attempt starts               *)
(*           await generate_content(...)                                   *)
(*   call    the API raised, or returned text that was unwrapped, parsed   *)
(*           and substituted; await validate_response(...)                 *)
(*   validate  return, or raise the temperature and go on                  *)
(* client is the module global; attempt and cfg are locals of the          *)
(* coroutine.                                                              *)
(***************************************************************************)
ConcInit == LlmIdle /\ PromptIdle /\ ChatIdle /\ ReqIdle /\ ConcIdle

\* task t after its for statement takes the next value, or after the loop
TaskNextIteration(r) ==
    IF r.attempt + 1 \in AttemptRange
    THEN [r EXCEPT !.attempt = r.attempt + 1, !.pc = "call"]
    ELSE [r EXCEPT !.pc = "returned"]

\* task t after the except clause of the loop
TaskHandler(r) ==
    IF Reraise(r.attempt) THEN [r EXCEPT !.pc = "raised"] ELSE TaskNextIteration(r)

\* a request enters refine_and_respond; when the client is unset it runs
\* configure_genai, whose Client(...) call succeeds or raises
Enter(t, ok) ==
    /\ tasks[t].pc \in {"idle", "returned", "raised"}
    /\ entered < MaxEntries
    /\ entered' = entered + 1
    /\ IF NeedsConfigure(client)
       THEN /\ configured' = Append(configured, [by |-> t, before |-> client, ok |-> ok])
            /\ client' = IF ok THEN "Client" ELSE client
            /\ tasks' = [tasks EXCEPT ![t].pc = IF ok THEN "context" ELSE "raised",
                                      ![t].attempt = 0, ![t].failed = 0]
       ELSE /\ ok
            /\ tasks' = [tasks EXCEPT ![t].pc = "context", ![t].attempt = 0, ![t].failed = 0]
            /\ UNCHANGED <<client, configured>>
    /\ UNCHANGED <<llmLocals, promptVars, chatVars, reqVars>>

\* the context arrives: prompt, cfg, first value of the loop variable
Resume(t) ==
    /\ tasks[t].pc = "context"
    /\ tasks' = [tasks EXCEPT ![t].pc = "call", ![t].attempt = 1,
                              ![t].temperature = ConfigTemperature(tasks[t].temperature)]
    /\ UNCHANGED <<configured, entered>>
    /\ UNCHANGED <<llmVars, promptVars, chatVars, reqVars>>

\* generate_content raises ("api"), or returns text whose handling raises
\* ("parse") or yields the dict to validate ("ok")
Call(t, outcome) ==
    /\ tasks[t].pc = "call"
    /\ tasks' = [tasks EXCEPT ![t] = IF outcome = "ok" THEN [@ EXCEPT !.pc = "validate"]
                                     ELSE TaskHandler(@)]
    /\ UNCHANGED <<configured, entered>>
    /\ UNCHANGED <<llmVars, promptVars, chatVars, reqVars>>

\* validate_response answers
Validated(t, valid) ==
    /\ tasks[t].pc = "validate"
    /\ tasks' = [tasks EXCEPT ![t] =
                     IF ReturnsOnPass(valid) THEN [@ EXCEPT !.pc = "returned"]
                     ELSE TaskNextIteration([@ EXCEPT !.temperature = RaisedTemperature(@),
                                                      !.failed = @ + 1])]
    /\ UNCHANGED <<configured, entered>>
    /\ UNCHANGED <<llmVars, promptVars, chatVars, reqVars>>

ConcNext ==
    \/ \E t \in Tasks, ok \in BOOLEAN : Enter(t, ok)
    \/ \E t \in Tasks : Resume(t)
    \/ \E t \in Tasks, outcome \in {"api", "parse", "ok"} : Call(t, outcome)
    \/ \E t \in Tasks, valid \in BOOLEAN : Validated(t, valid)

ConcSpec == ConcInit /\ [][ConcNext]_vars

(***************************************************************************)
(* Properties                                                              *)
(***************************************************************************)
\* alignment of a detected emotion with the expected one, as the validator's
\* policy states it
Aligned(cls, exp) == (exp = "neutral" /\ cls \in PermissiveEmotions) \/ cls = exp

C2_ReturnsLastReply == (pc = "returned" /\ how = "exhausted") => result = data

\* C2 amended: when the final attempt's reply fails validation the generator
\* returns (does not raise) the fixed fallback reply, whatever the last
\* attempt's reply was; and that is the only reply returned on exhaustion.
C2_ReturnsFallbackOnExhaustion ==
    /\ (apiCalls = max_attempts /\ lastCls # "none" /\ ~lastValid)
          => (pc = "returned" /\ how = "exhausted" /\ result = FallbackReply)
    /\ how = "exhausted" => (pc = "returned" /\ result = FallbackReply)

C2_Witness ==
    /\ pc = "returned" /\ how = "exhausted"
    /\ data.response = "r1" /\ result = FallbackReply

C4_ReturnOnFirstPass ==
    passedAt # 0 =>
        /\ pc = "returned" /\ how = "validated"
        /\ attempt = passedAt /\ apiCalls = passedAt /\ validations <= passedAt
        /\ lastValid /\ result = data

C4_Witness ==
    /\ passedAt = 2 /\ pc = "returned" /\ validations = 2
    /\ result.response = "r2"

\* C5: validate_response returns pass exactly when the expected emotion is
\* neutral and the detected one is in the permissive set, or the detected
\* emotion equals the expected one.
C5_ValidatorPolicy == lastCls # "none" => (lastValid <=> Aligned(lastCls, expected))

C5_Witness ==
    /\ expected = "neutral" /\ lastCls = "happy" /\ lastValid
    /\ pc = "returned"

\* C6: when emotion classification throws inside validate_response the
\* validator returns false without raising, and the generator goes on as
\* after a tone mismatch: to the next attempt, or to the end of the loop.
C6_ValidatorFailSafe ==
    lastCls = "raise" =>
        /\ ~lastValid /\ err = "none" /\ pc # "raised"
        /\ \/ pc = "call" /\ attempt = apiCalls + 1
           \/ pc = "returned" /\ how = "exhausted" /\ attempt = max_attempts

C6_Witness == lastCls = "raise" /\ pc = "call" /\ attempt = 2 /\ ~lastValid

C8_MalformedNeverRaises == pc = "raised" => err # "JSONDecodeError"

\* texts of JSON objects and the objects they denote
ObjectTexts == { <<"{", "R1", "}">>, <<"{", "R2", "}">>, <<"{", "A", "}">>, <<"{", "A", ",", "R1", "}">> }

ObjectDenoted(c) ==
    IF c = <<"{", "R1", "}">> THEN Dict({"response"}, "r1", "")
    ELSE IF c = <<"{", "R2", "}">> THEN Dict({"response"}, "r2", "")
    ELSE IF c = <<"{", "A", "}">> THEN Dict({"appraisal"}, "", "Threat")
    ELSE Dict({"appraisal", "response"}, "r1", "Threat")

BraceFree(s) == \A i \in 1..Len(s) : s[i] \notin {"{", "}"}

HasNoise(s) == \E i \in 1..Len(s) : s[i] # " "

\* C9: when the unwrapped text is a JSON object surrounded by brace-free
\* text that is not all whitespace (so the strict parse fails), the attempt
\* proceeds with exactly that object, obtained by the salvage pass.
C9_SalvageParse ==
    LET u == Unwrap(raw) IN
    \A i \in 1..Len(u) : \A j \in i..Len(u) :
        ( /\ raw # <<>>
          /\ SubSeq(u, i, j) \in ObjectTexts
          /\ BraceFree(SubSeq(u, 1, i - 1)) /\ BraceFree(SubSeq(u, j + 1, Len(u)))
          /\ HasNoise(SubSeq(u, 1, i - 1) \o SubSeq(u, j + 1, Len(u))) )
        => /\ err = "none" /\ via = "salvage"
           /\ parsed = ObjectDenoted(SubSeq(u, i, j))
           /\ pc \in {"validate", "returned"}

C9_Witness ==
    /\ raw = <<"n", "{", "R1", "}", "n">> /\ via = "salvage"
    /\ parsed = Dict({"response"}, "r1", "") /\ data = parsed /\ pc = "validate"

\* C10: when the parsed object is empty or has no response field the attempt
\* substitutes the fixed fallback reply (appraisal Challenge, regulation
\* empty) and goes on to validate it like any other reply; it is not an
\* error.
C10_FallbackSubstitution ==
    (parsed.kind = "dict" /\ "response" \notin parsed.keys) =>
        /\ data = FallbackReply
        /\ data.appraisal = "Challenge" /\ data.regulation = <<>>
        /\ err = "none"
        /\ pc = "validate" \/ (pc = "returned" /\ lastCls # "none")

C10_Witness ==
    /\ parsed = Dict({"appraisal"}, "", "Threat") /\ pc = "returned"
    /\ how = "validated" /\ result = FallbackReply

\* whitespace that may separate a fence from the text it encloses
WsPads == {p \in Pads : \A i \in 1..Len(p) : p[i] = " "}

FencedBothEnds(s) == Len(s) >= 1 /\ s[1] = "F" /\ s[Len(s)] = "F"

\* C11: a reply that is a JSON object text put between ```json and ``` or
\* between ``` and ```, with optional whitespace inside the fences, is
\* unwrapped to exactly that text and parsed by the strict parse to the
\* object the text denotes; a reply that does not both start and end with a
\* fence passes the fence-stripping step unchanged.
C11_FenceRoundTrip ==
    /\ \A t \in ObjectTexts : \A o \in {<<"F", "J">>, <<"F">>} : \A p \in WsPads : \A q \in WsPads :
           raw = o \o p \o t \o q \o <<"F">> =>
               /\ unwrapped = t
               /\ parsed = ObjectDenoted(t)
               /\ via = "strict" /\ err = "none"
    /\ ~FencedBothEnds(Strip(raw)) => unwrapped = Strip(raw)

C11_Witness ==
    /\ raw = <<"F", "J", " ", "{", "R1", "}", " ", "F">>
    /\ unwrapped = <<"{", "R1", "}">>
    /\ parsed = Dict({"response"}, "r1", "") /\ via = "strict" /\ pc = "validate"

\* C16 as stated: the reply returned by refine_and_respond has at most two
\* regulation strategies, and none when the user's intensity is low (< 5).
C16_RegulationInvariant ==
    pc = "returned" =>
        /\ Len(result.regulation) <= 2
        /\ intensity < 5 => result.regulation = <<>>

\* C19: the sampling temperature starts at 0.7, every failed validation
\* raises it by the fixed increment for the next attempt (an API or parse
\* failure leaves it alone), and it never exceeds the cap.
C19_TemperatureSchedule ==
    /\ cfg_temperature <= TemperatureCap
    /\ pc \in {"call", "validate"} =>
           cfg_temperature = InitialTemperature + TemperatureStep * validations

C19_Witness ==
    /\ pc = "returned" /\ how = "exhausted" /\ validations = max_attempts
    /\ cfg_temperature = TemperatureCap

\* t occurs in s as a contiguous run of tokens
Contains(s, t) == \E i \in 1..(Len(s) - Len(t) + 1) : SubSeq(s, i, i + Len(t) - 1) = t

\* C12: the prompt built by create_dynamic_prompt contains the current
\* message text verbatim, right after the current-message marker, and when
\* the context is empty it contains the sentinel 'No prior conversation.'.
C12_PromptCarriesMessage ==
    prompt # <<>> =>
        /\ Contains(prompt, <<MessageMarker>> \o user_text \o <<Instructions>>)
        /\ context = <<>> => Contains(prompt, <<ContextMarker, "No prior conversation.", MessageMarker>>)

C12_Witness ==
    /\ context = <<>> /\ user_text = <<"so", " ", "sad">>
    /\ Contains(prompt, <<"No prior conversation.">>) /\ Contains(prompt, <<"so", " ", "sad">>)

\* the tokens of the prompt between the context marker and the
\* current-message marker
ContextSection(p) ==
    LET i == CHOOSE k \in 1..Len(p) : p[k] = ContextMarker
        j == CHOOSE k \in 1..Len(p) : p[k] = MessageMarker
    IN SubSeq(p, i + 1, j - 1)

\* the last k entries of a list, k <= 3, written out with single spaces
LastJoined(l, k) ==
    LET n == Len(l) IN
    IF k = 1 THEN l[n]
    ELSE IF k = 2 THEN l[n - 1] \o <<" ">> \o l[n]
    ELSE l[n - 2] \o <<" ">> \o l[n - 1] \o <<" ">> \o l[n]

C13_LoadingEndsWithReply ==
    /\ [](~isLoading /\ messages # <<>> => messages[Len(messages)].sender \in {"ai", "system"})
    /\ isLoading ~> (~isLoading /\ messages # <<>> /\ messages[Len(messages)].sender \in {"ai", "system"})

C13_Witness ==
    /\ ~isLoading /\ lastOutcome.kind = "response" /\ ~lastOutcome.parses
    /\ Len(messages) = 2 /\ messages[2].sender = "system"

\* C14 as stated: after a response with a non-2xx status the last message
\* is a system message 'Error: ' + detail, or 'Error: Request failed with
\* status <code>' when the payload has no detail, the error state is that
\* detail / status string, and no ai message was appended.
C14_NonOkShowsDetail ==
    (lastOutcome.kind = "response" /\ ~Ok(lastOutcome.status)) =>
        LET shown == IF lastOutcome.parses /\ lastOutcome.detail # <<>>
                     THEN lastOutcome.detail
                     ELSE <<"Request failed with status ", StatusStr(lastOutcome.status)>>
        IN
        /\ messages[Len(messages)] = [sender |-> "system", text |-> <<"Error: ">> \o shown]
        /\ error = shown

C17_ContextBounded ==
    /\ Len(store) <= ContextBound
    /\ Len(store) = (IF Len(history) < ContextBound THEN Len(history) ELSE ContextBound)
    /\ \A i \in 1..Len(store) : store[i] = history[Len(history) - Len(store) + i]

C17_Witness ==
    /\ Len(history) > ContextBound /\ Len(store) = ContextBound
    /\ store[1] # history[1] /\ store[Len(store)] = history[Len(history)]

C24_OneRequestInFlight ==
    /\ [](Len(request) <= 1)
    /\ [][request # NoRequest /\ lastEvent' \in {"accepted", "ignored"} => request' = request]_vars

C24_Witness == lastEvent = "ignored" /\ isLoading /\ Len(request) = 1 /\ accepted = 1

\* C25: every accepted submission appends exactly one user message and its
\* completion exactly one reply, an ai message or a system message; the
\* k-th user message stands right before the k-th reply.
C25_OneUserOneReply ==
    /\ Len(messages) = accepted + completed
    /\ Cardinality({i \in 1..Len(messages) : messages[i].sender = "user"}) = accepted
    /\ Cardinality({i \in 1..Len(messages) : messages[i].sender \in {"ai", "system"}}) = completed
    /\ \A i \in 1..Len(messages) : messages[i].sender = "user" <=> i % 2 = 1
    /\ completed <= accepted

C25_Witness ==
    /\ accepted = 2 /\ completed = 2 /\ Len(messages) = 4
    /\ messages[2].sender = "system" /\ messages[4].sender = "ai"

IsPrefix(a, b) == Len(a) <= Len(b) /\ SubSeq(b, 1, Len(a)) = a

\* C26: the message list only grows at its end: each state of the list is
\* a prefix of the next one, so every earlier state is a prefix of the
\* current list.
C26_AppendOnly == [][IsPrefix(messages, messages')]_vars

C26_Witness ==
    /\ Len(messages) = 4 /\ completed = 2
    /\ messages[1].sender = "user" /\ messages[3].sender = "user" /\ messages[1] # messages[3]

\* C27: a submit event that finds the trimmed input empty, or isLoading true,
\* changes none of messages, inputValue, isLoading, error and sends no
\* request.
C27_RejectedSubmitIsNoOp ==
    [][(lastEvent' \in {"accepted", "ignored"} /\ (Trim(inputValue) = <<>> \/ isLoading))
         => /\ messages' = messages /\ inputValue' = inputValue
            /\ isLoading' = isLoading /\ error' = error
            /\ request' = request]_vars

C27_Witness ==
    /\ lastEvent = "ignored" /\ ~isLoading /\ inputValue = <<" ">>
    /\ error # <<>> /\ Len(messages) = 2 /\ request = NoRequest

\* C28: after a 2xx response whose JSON body lacks a non-empty ai_response,
\* the emotion analysis, or the analysis' distribution.root, the request
\* counts as failed: the reply appended is the system message for incomplete
\* data, the error state is set, and no ai message was appended.
C28_IncompleteReplyFails ==
    (/\ lastOutcome.kind = "response" /\ Ok(lastOutcome.status) /\ lastOutcome.parses
     /\ \/ lastOutcome.ai_response = <<>>
        \/ lastOutcome.analysis \in {"absent", "nodistribution", "noroot"})
    => /\ messages[Len(messages)] =
              [sender |-> "system", text |-> <<"Error: ", "Received incomplete or malformed data structure from backend.">>]
       /\ messages[Len(messages) - 1].sender = "user"
       /\ error = <<"Received incomplete or malformed data structure from backend.">>

C28_Witness ==
    /\ lastOutcome.kind = "response" /\ lastOutcome.status = 201 /\ lastOutcome.analysis = "nodistribution"
    /\ lastOutcome.ai_response # <<>> /\ messages[Len(messages)].sender = "system"

\* C29: the error state is null while a request is in flight; once a request
\* has completed and no new one was accepted, it is non-null exactly when
\* that request failed; the error banner is rendered only with a non-null
\* error and isLoading false.
C29_ErrorState ==
    LET succeeded == /\ lastOutcome.kind = "response" /\ Ok(lastOutcome.status) /\ lastOutcome.parses
                     /\ lastOutcome.ai_response # <<>> /\ lastOutcome.analysis = "full"
    IN
    /\ isLoading => error = <<>>
    /\ accepted = 0 => error = <<>>
    /\ (~isLoading /\ completed > 0) =>
           /\ error # <<>> <=> ~succeeded
           /\ error # <<>> <=> messages[Len(messages)].sender = "system"
    /\ BannerShown => (error # <<>> /\ ~isLoading)

C29_Witness ==
    /\ ~isLoading /\ error = <<>> /\ ~BannerShown /\ completed = 2
    /\ messages[2].sender = "system" /\ messages[4].sender = "ai"

\* C23: generate_emotional_response lets no exception out: when
\* refine_and_respond returned a dict with a response its reply is that
\* response, and when refine_and_respond raised (an API failure or any other
\* exception on the last attempt) its reply is the canned text.
C23_AlwaysAReply ==
    /\ reply # "raise"
    /\ reply # NoReply => pc \in {"returned", "raised"}
    /\ pc = "returned" => (reply = result.response /\ "response" \in result.keys)
    /\ (pc = "raised" /\ reply # NoReply) =>
           /\ reply = "Hey, I'm Charlotte, your therapist. Thanks for sharing - what's going on for you right now?"
           /\ err # "none" /\ attempt = max_attempts

C23_Witness ==
    /\ pc = "raised" /\ how = "none" /\ err = "api" /\ attempt = max_attempts
    /\ reply = CannedText

\* C22: whatever the interleaving of the requests, every run of
\* configure_genai starts with the client unset, at most one run sets it,
\* and once the client is set no step assigns it again.
C22_ClientSetOnce ==
    /\ [](\A i \in 1..Len(configured) : configured[i].before = "None")
    /\ [](Cardinality({i \in 1..Len(configured) : configured[i].ok}) <= 1)
    /\ [](client # "None" <=> \E i \in 1..Len(configured) : configured[i].ok)
    /\ [][client # "None" => (client' = client /\ configured' = configured)]_vars

C22_Witness ==
    /\ client = "Client" /\ Len(configured) = 2 /\ ~configured[1].ok /\ configured[2].ok
    /\ \A t \in Tasks : tasks[t].pc \in {"call", "validate"}

Min(a, b) == IF a < b THEN a ELSE b

\* C30: the temperature of a request is 0.7 raised by one step (up to the
\* cap) for each validation of its own invocation that failed: exceptions,
\* earlier invocations and the requests running beside it leave it alone.
\* It changes only when the config is created and in a failed validation
\* of the request itself.
C30_TemperatureOwnFailuresOnly ==
    /\ [](\A t \in Tasks : tasks[t].attempt > 0 =>
             tasks[t].temperature = Min(TemperatureCap, InitialTemperature + tasks[t].failed * TemperatureStep))
    /\ [][\A t \in Tasks : tasks'[t].temperature # tasks[t].temperature =>
             \/ tasks[t].pc = "context" /\ tasks'[t].pc = "call"
             \/ tasks[t].pc = "validate" /\ tasks'[t].failed = tasks[t].failed + 1]_vars

C30_Witness ==
    /\ tasks[1].pc = "raised" /\ tasks[1].attempt = max_attempts /\ tasks[1].temperature = 8
    /\ tasks[2].pc = "call" /\ tasks[2].temperature = InitialTemperature /\ entered >= 3

====
